---- MODULE Spec2Model ----
(***************************************************************************)
(* Model of the NHL transition-analytics pipeline:                         *)
(*   src/src/features.py  - the feature builder (coordinate aliasing, the  *)
(*                          zone / entry-type / manpower classification    *)
(*                          and the per-game rolling xGD sum);             *)
(*   src/src/models.py    - candidate scoring, selection of the best       *)
(*                          candidate and the hold-out refit.              *)
(* A data frame is a record of an index (row labels), an ordered list of   *)
(* column labels and one tuple of cells per row.  A call that raises is    *)
(* modelled by an error record in place of the returned frame.             *)
(***************************************************************************)
EXTENDS Integers, Sequences, FiniteSets, TLC

VARIABLES pc, raw, window, shuffled, out, out2,
          n_samples, cv, scores, evaluated, cv_rows, best_name,
          train, holdout, fit_rows

vars == <<pc, raw, window, shuffled, out, out2,
          n_samples, cv, scores, evaluated, cv_rows, best_name,
          train, holdout, fit_rows>>

featureVars == <<raw, window, shuffled, out, out2>>
modelVars == <<n_samples, cv, scores, evaluated, cv_rows, best_name,
               train, holdout, fit_rows>>

-----------------------------------------------------------------------------
(* Cells.  A numeric cell is a number or NaN (missing); Bad is text that   *)
(* does not parse as a number, found in a column that should be numeric.   *)
Num(n) == [k |-> "num", v |-> n]
NaN == [k |-> "nan", v |-> 0]
Bad == [k |-> "str", v |-> 0]
IsNum(a) == a.k = "num"

(* Text cells are tuples of characters, so that a prefix test is a real    *)
(* comparison; NoText is a missing text cell.                              *)
Text(s) == [k |-> "str", s |-> s]
NoText == [k |-> "nan", s |-> <<>>]

-----------------------------------------------------------------------------
(* Data frames.                                                            *)
Frame(index, columns, rows) ==
    [index |-> index, columns |-> columns, rows |-> rows]

KeyError(label) == [err |-> "KeyError", what |-> label]
ValueError(label) == [err |-> "ValueError", what |-> label]
TypeError(label) == [err |-> "TypeError", what |-> label]
IsErr(r) == "err" \in DOMAIN r
IsFrame(r) == ~IsErr(r)

\* a function on 1..n as a tuple
Tuple(f) == f \o <<>>

NRows(df) == Len(df.rows)
HasCol(df, c) == \E j \in 1..Len(df.columns) : df.columns[j] = c
ColPos(df, c) ==
    CHOOSE j \in 1..Len(df.columns) :
        /\ df.columns[j] = c
        /\ \A i \in 1..Len(df.columns) : df.columns[i] = c => j <= i
\* df[c]: the cells of column c, in row order
Col(df, c) ==
    LET j == ColPos(df, c) IN Tuple([i \in 1..NRows(df) |-> df.rows[i][j]])
\* df[c] = vals: replaces the column, or appends it as the last column
SetCol(df, c, vals) ==
    IF HasCol(df, c)
    THEN LET j == ColPos(df, c)
         IN  [df EXCEPT !.rows =
                Tuple([i \in 1..NRows(df) |-> [df.rows[i] EXCEPT ![j] = vals[i]]])]
    ELSE [df EXCEPT !.columns = Append(df.columns, c),
                    !.rows = Tuple([i \in 1..NRows(df) |->
                                       Append(df.rows[i], vals[i])])]
\* df.rename(columns = {from1: to1, from2: to2}); labels not present are ignored
Rename(df, from1, to1, from2, to2) ==
    [df EXCEPT !.columns =
        Tuple([j \in 1..Len(df.columns) |->
                 IF df.columns[j] = from1 THEN to1
                 ELSE IF df.columns[j] = from2 THEN to2
                 ELSE df.columns[j]])]

RECURSIVE SumSeq(_)
SumSeq(s) == IF Len(s) = 0 THEN 0 ELSE Head(s) + SumSeq(Tail(s))

-----------------------------------------------------------------------------
(* features.py, section 0: helpers                                         *)
alias_coords(df) ==
    IF ~HasCol(df, "x")
    THEN IF HasCol(df, "arenaAdjustedXCord") /\ HasCol(df, "arenaAdjustedYCord")
         THEN Rename(df, "arenaAdjustedXCord", "x", "arenaAdjustedYCord", "y")
         ELSE Rename(df, "xCordAdjusted", "x", "yCordAdjusted", "y")
    ELSE df

IsHome(team) == IF team = "HOME" THEN 1 ELSE 0

add_is_home(df) ==
    IF ~HasCol(df, "team") THEN KeyError("team")
    ELSE LET team == Col(df, "team")
         IN  SetCol(df, "isHomeTeam", [i \in 1..NRows(df) |-> IsHome(team[i])])

-----------------------------------------------------------------------------
(* features.py, section 1: zone and entry type                             *)
Gt0(a) == IsNum(a) /\ a.v > 0
Lt0(a) == IsNum(a) /\ a.v < 0
Eq1(a) == IsNum(a) /\ a.v = 1

\* the zone rule with the centre line counted as the attacking side
AttackMaskInclusive(home, x) ==
    (home = 1 /\ IsNum(x) /\ x.v >= 0) \/ (home = 0 /\ IsNum(x) /\ x.v <= 0)

AttackMask(home, x) == (home = 1 /\ Gt0(x)) \/ (home = 0 /\ Lt0(x))

OffensiveZone(home, x) == IF AttackMask(home, x) THEN "ATTACK" ELSE "DEFEND"

NeutralPrefix == <<"N", "e", "u">>

\* str.startswith on a text cell
StartsWith(loc, prefix) ==
    /\ Len(loc.s) >= Len(prefix)
    /\ SubSeq(loc.s, 1, Len(prefix)) = prefix

\* the two overrides applied in the other order
EntryTypeRushLast(shotRush, loc) ==
    LET e0 == "OTHER"
        e1 == IF StartsWith(loc, NeutralPrefix) THEN "NEUTRAL" ELSE e0
        e2 == IF Eq1(shotRush) THEN "CONTROLLED" ELSE e1
    IN  e2

\* "OTHER", then overwritten where shotRush == 1, then where location starts with "Neu"
EntryType(shotRush, loc) ==
    LET e0 == "OTHER"
        e1 == IF Eq1(shotRush) THEN "CONTROLLED" ELSE e0
        e2 == IF StartsWith(loc, NeutralPrefix) THEN "NEUTRAL" ELSE e1
    IN  e2

add_zone_and_entry_type(df0) ==
    LET df == add_is_home(alias_coords(df0))
    IN  IF IsErr(df) THEN df
        ELSE IF ~HasCol(df, "x") THEN KeyError("x")
        ELSE LET home == Col(df, "isHomeTeam")
                 x == Col(df, "x")
                 zone == [i \in 1..NRows(df) |-> OffensiveZone(home[i], x[i])]
                 df1 == SetCol(df, "offensive_zone", zone)
             IN  IF ~HasCol(df1, "shotRush") THEN KeyError("shotRush")
                 ELSE IF ~HasCol(df1, "location") THEN KeyError("location")
                 ELSE LET rush == Col(df1, "shotRush")
                          loc == Col(df1, "location")
                      IN  \* a boolean mask holding NaN cannot index df.loc
                          IF \E i \in 1..NRows(df1) : loc[i] = NoText
                          THEN ValueError("location")
                          ELSE SetCol(df1, "entry_type",
                                 [i \in 1..NRows(df1) |-> EntryType(rush[i], loc[i])])

-----------------------------------------------------------------------------
(* features.py, section 2: manpower situation                              *)
\* np.where(isHomeTeam == 1, a, b), one cell
Where(home, a, b) == IF home = 1 THEN a ELSE b

\* shooters - defenders on one row; NaN when either count is missing
Diff(shooters, defenders) ==
    IF IsNum(shooters) /\ IsNum(defenders)
    THEN Num(shooters.v - defenders.v)
    ELSE NaN

\* .map({0: "EV", 1: "PP", -1: "SH"}).fillna("OTHER")
ManpowerLabel(d) ==
    IF d = Num(0) THEN "EV"
    ELSE IF d = Num(1) THEN "PP"
    ELSE IF d = Num(-1) THEN "SH"
    ELSE "OTHER"

add_manpower_situation(df) ==
    IF ~HasCol(df, "isHomeTeam") THEN KeyError("isHomeTeam")
    ELSE IF ~HasCol(df, "homeSkatersOnIce") THEN KeyError("homeSkatersOnIce")
    ELSE IF ~HasCol(df, "awaySkatersOnIce") THEN KeyError("awaySkatersOnIce")
    ELSE LET home == Col(df, "isHomeTeam")
             h == Col(df, "homeSkatersOnIce")
             a == Col(df, "awaySkatersOnIce")
             shooters == [i \in 1..NRows(df) |-> Where(home[i], h[i], a[i])]
             defenders == [i \in 1..NRows(df) |-> Where(home[i], a[i], h[i])]
         IN  \* the subtraction of two object arrays fails on the first text cell
             IF \E i \in 1..NRows(df) : shooters[i] = Bad \/ defenders[i] = Bad
             THEN TypeError("shooters - defenders")
             ELSE SetCol(df, "manpower_situation",
                    [i \in 1..NRows(df) |->
                        ManpowerLabel(Diff(shooters[i], defenders[i]))])

-----------------------------------------------------------------------------
(* features.py, section 3: xGD per event and rolling                       *)
DEFAULT_WINDOW == 25
MIN_PERIODS == 1

Neg(a) == IF IsNum(a) THEN Num(0 - a.v) ELSE a

XgdEvent(home, xGoal) == Where(home, xGoal, Neg(xGoal))

\* the (game_id, time) key a sorts before the key b
KeyLess(a, b) == a[1] < b[1] \/ (a[1] = b[1] /\ a[2] < b[2])

\* sort_values on two keys is a stable lexicographic sort: rows with equal
\* keys keep the order they had.  SortRank(keys, i) is the place row i moves to.
SortRank(keys, i) ==
    1 + Cardinality({j \in 1..Len(keys) :
                        \/ KeyLess(keys[j], keys[i])
                        \/ (~KeyLess(keys[i], keys[j]) /\ j < i)})

SortOrder(keys) ==
    Tuple([p \in 1..Len(keys) |-> CHOOSE i \in 1..Len(keys) : SortRank(keys, i) = p])

\* df.sort_values(["game_id", "time"], inplace=True)
sort_values(df) ==
    LET g == Col(df, "game_id")
        t == Col(df, "time")
        keys == Tuple([i \in 1..NRows(df) |-> <<g[i], t[i]>>])
        ord == SortOrder(keys)
    IN  [df EXCEPT !.index = Tuple([p \in 1..NRows(df) |-> df.index[ord[p]]]),
                   !.rows = Tuple([p \in 1..NRows(df) |-> df.rows[ord[p]]])]

\* the trailing window taken over the whole frame, without the groupby
WindowOfAnyGame(g, p, w) == {q \in 1..p : p - q < w}

\* positions of the trailing window of row p inside its own group, g being the
\* group key of every row
WindowOf(g, p, w) ==
    LET grp == {q \in 1..p : g[q] = g[p]}
    IN  {q \in grp : Cardinality({r \in grp : r >= q}) <= w}

\* .rolling(w, min_periods).sum() of one window: NaN cells are not observations
RollingSum(vals, win, min_periods) ==
    LET obs == {q \in win : IsNum(vals[q])}
        total == SumSeq([q \in 1..Len(vals) |-> IF q \in obs THEN vals[q].v ELSE 0])
    IN  IF Cardinality(obs) >= min_periods THEN Num(total) ELSE NaN

\* groupby("game_id")[col].rolling(w, min_periods=1).sum().reset_index(level=0, drop=True):
\* a series of (row label, value) pairs
GroupRolling(df, col, w) ==
    LET vals == Col(df, col)
        g == Col(df, "game_id")
    IN  Tuple([p \in 1..NRows(df) |->
                 [label |-> df.index[p],
                  value |-> RollingSum(vals, WindowOf(g, p, w), MIN_PERIODS)]])

\* df[c] = series: each row takes the value the series holds for its label
AssignSeries(df, c, series) ==
    SetCol(df, c,
        [i \in 1..NRows(df) |->
            LET hits == {p \in 1..Len(series) : series[p].label = df.index[i]}
            IN  IF hits = {} THEN NaN ELSE series[CHOOSE p \in hits : TRUE].value])

add_xgd(df, w) ==
    IF ~HasCol(df, "isHomeTeam") THEN KeyError("isHomeTeam")
    ELSE IF ~HasCol(df, "xGoal") THEN KeyError("xGoal")
    ELSE LET home == Col(df, "isHomeTeam")
             xg == Col(df, "xGoal")
             df1 == SetCol(df, "xGD_event",
                        [i \in 1..NRows(df) |-> XgdEvent(home[i], xg[i])])
         IN  IF ~HasCol(df1, "game_id") THEN KeyError("game_id")
             ELSE IF ~HasCol(df1, "time") THEN KeyError("time")
             ELSE LET df2 == sort_values(df1)
                  IN  AssignSeries(df2, "xGD_shift",
                                   GroupRolling(df2, "xGD_event", w))

-----------------------------------------------------------------------------
(* features.py, section 4: orchestrator                                    *)
build_feature_frame(df) ==
    LET a == add_zone_and_entry_type(df)
    IN  IF IsErr(a) THEN a
        ELSE LET b == add_manpower_situation(a)
             IN  IF IsErr(b) THEN b ELSE add_xgd(b, DEFAULT_WINDOW)

-----------------------------------------------------------------------------
(* Input tables.                                                           *)
MaxEvents == 3
MaxZoneRows == 1
MaxManRows == 2

Nothing == Frame(<<>>, <<>>, <<>>)

\* read_csv gives the rows the labels 1..n
RangeIndex(n) == Tuple([i \in 1..n |-> i])

\* all tables of 1..max rows drawn from a set of rows
Tables(rowSet, max) == UNION {[1..n -> rowSet] : n \in 1..max}

GameIds == {1, 2}
Times == {0, 1}
Windows == {1, 2, DEFAULT_WINDOW}

XgdColumns == <<"isHomeTeam", "xGoal", "game_id", "time">>
\* home shots of either value and away shots of value 1
XgdRows ==
    {<<s[1], s[2], g, t>> :
        s \in {<<1, Num(1)>>, <<1, Num(2)>>, <<0, Num(1)>>}, g \in GameIds, t \in Times}

Teams == {"HOME", "AWAY", "home"}
XCoords == {Num(-1), Num(0), Num(1), NaN}
ShotRushes == {Num(0), Num(1), Num(2), NaN}
Locations == {Text(<<"N", "e", "u", "Z">>), Text(<<"N", "e", "u">>),
              Text(<<"n", "e", "u", "Z">>), Text(<<"N", "e">>), NoText}

ZoneColumns == <<"team", "arenaAdjustedXCord", "arenaAdjustedYCord", "shotRush", "location">>
ZoneRows == {<<tm, x, Num(0), sr, loc>> :
                tm \in Teams, x \in XCoords, sr \in ShotRushes, loc \in Locations}

SkaterCounts == {Num(3), Num(4), Num(5), NaN, Bad}
ManColumns == <<"isHomeTeam", "homeSkatersOnIce", "awaySkatersOnIce">>
ManRows == {<<h, hs, as>> : h \in {0, 1}, hs \in SkaterCounts, as \in SkaterCounts}

ModelIdle ==
    /\ n_samples = 0
    /\ cv = <<>>
    /\ scores = <<>>
    /\ evaluated = {}
    /\ cv_rows = {}
    /\ best_name = ""
    /\ train = {}
    /\ holdout = {}
    /\ fit_rows = {}

FeatureInit(columns, rowSet, max, windows) ==
    /\ pc = "input"
    /\ \E rows \in Tables(rowSet, max) :
          raw = Frame(RangeIndex(Len(rows)), columns, Tuple(rows))
    /\ window \in windows
    /\ shuffled = Nothing
    /\ out = Nothing
    /\ out2 = Nothing
    /\ ModelIdle

-----------------------------------------------------------------------------
(* The rolling xGD sum on one table.                                       *)
AddXgd ==
    /\ pc = "input"
    /\ out' = add_xgd(raw, window)
    /\ pc' = "done"
    /\ UNCHANGED <<raw, window, shuffled, out2, modelVars>>

InitXgd == FeatureInit(XgdColumns, XgdRows, MaxEvents, Windows)
NextXgd == AddXgd
SpecXgd == InitXgd /\ [][NextXgd]_vars

\* the row of the input table that carries label l
RawRow(l) == raw.rows[CHOOSE i \in 1..NRows(raw) : raw.index[i] = l]

\* the signed contribution of the input event with label l
SignedXGoal(l) ==
    LET r == RawRow(l) IN IF r[1] = 1 THEN r[2].v ELSE 0 - r[2].v

\* rows of the result that belong to the game of row p, up to and including p
SameGameUpTo(df, p) == {q \in 1..p : RawRow(df.index[q])[3] = RawRow(df.index[p])[3]}

\* row p together with the at most w-1 rows of its game that immediately precede it
Trailing(df, p, w) ==
    {q \in SameGameUpTo(df, p) :
        Cardinality({r \in SameGameUpTo(df, p) : q <= r}) <= w}

ExpectedShift(df, p, w) ==
    SumSeq([q \in 1..NRows(df) |->
              IF q \in Trailing(df, p, w) THEN SignedXGoal(df.index[q]) ELSE 0])

AscendingByGameTime(df) ==
    \A p, q \in 1..NRows(df) :
        p < q =>
            LET a == RawRow(df.index[p])
                b == RawRow(df.index[q])
            IN  a[3] < b[3] \/ (a[3] = b[3] /\ a[4] <= b[4])

SameEvents(df) ==
    /\ NRows(df) = NRows(raw)
    /\ \A l \in 1..NRows(raw) :
          Cardinality({p \in 1..NRows(df) : df.index[p] = l}) = 1

\* C1: after add_xgd the rows are the input events in (game_id, time) ascending
\* order, each event's xGD_shift is the sum of xGD_event over the event and the
\* at most W-1 events immediately before it in the same game (no event of
\* another game contributes), and the first event of every game gets a defined
\* value equal to its own xGD_event.
C1_RollingWindowWithinGame ==
    pc = "done" =>
        /\ IsFrame(out)
        /\ SameEvents(out)
        /\ AscendingByGameTime(out)
        /\ \A p \in 1..NRows(out) :
              LET shift == Col(out, "xGD_shift")[p]
                  event == Col(out, "xGD_event")[p]
              IN  /\ event = Num(SignedXGoal(out.index[p]))
                  /\ shift = Num(ExpectedShift(out, p, window))
                  /\ SameGameUpTo(out, p) = {p} => shift = event

\* a table of two games given out of order, in which a game has more events
\* than the window holds, so that an early event drops out of a later sum
C1_Witness ==
    /\ pc = "done"
    /\ IsFrame(out)
    /\ out.index # raw.index
    /\ \E p, q \in 1..NRows(out) :
          /\ q \in SameGameUpTo(out, p)
          /\ q \notin Trailing(out, p, window)
          /\ SignedXGoal(out.index[q]) # 0
    /\ \E p, q \in 1..NRows(out) : q < p /\ q \notin SameGameUpTo(out, p)

-----------------------------------------------------------------------------
(* The rolling xGD sum on two differently ordered copies of one table.     *)
\* the rows of df taken in the order perm, each keeping its label
Reorder(df, perm) ==
    [df EXCEPT !.index = Tuple([i \in 1..NRows(df) |-> df.index[perm[i]]]),
               !.rows = Tuple([i \in 1..NRows(df) |-> df.rows[perm[i]]])]

Shuffle ==
    /\ pc = "done"
    /\ \E perm \in Permutations(1..NRows(raw)) :
          /\ perm # [i \in 1..NRows(raw) |-> i]
          /\ shuffled' = Reorder(raw, perm)
    /\ pc' = "shuffled"
    /\ UNCHANGED <<raw, window, out, out2, modelVars>>

AddXgdShuffled ==
    /\ pc = "shuffled"
    /\ out2' = add_xgd(shuffled, window)
    /\ pc' = "both"
    /\ UNCHANGED <<raw, window, shuffled, out, modelVars>>

InitShuffle == FeatureInit(XgdColumns, XgdRows, MaxEvents, Windows)
NextShuffle == AddXgd \/ Shuffle \/ AddXgdShuffled
SpecShuffle == InitShuffle /\ [][NextShuffle]_vars

\* the xGD_shift the result df gives the event with label l
ShiftOf(df, l) ==
    Col(df, "xGD_shift")[CHOOSE p \in 1..NRows(df) : df.index[p] = l]

\* C2: two differently ordered copies of the same events give every event the
\* same xGD_shift, also when events of a game share a time value.
C2_ShuffledCopiesAgree ==
    pc = "both" =>
        \A l \in 1..NRows(raw) : ShiftOf(out, l) = ShiftOf(out2, l)

-----------------------------------------------------------------------------
(* The whole feature pipeline on a raw table.                              *)
MaxFrameRows == 2

CoordColumns == <<"x", "y", "arenaAdjustedXCord", "arenaAdjustedYCord",
                  "xCordAdjusted", "yCordAdjusted">>
CoordLabels == {CoordColumns[j] : j \in 1..Len(CoordColumns)}

\* what a coordinate column holds: the adjusted pair mirrors the arena pair
CoordCell(c) ==
    IF c \in {"xCordAdjusted", "yCordAdjusted"} THEN Num(-1) ELSE Num(1)

InSet(present, c) == c \in present
CoordsOf(present) ==
    LET keep(c) == InSet(present, c) IN SelectSeq(CoordColumns, keep)

RawColumns(present) ==
    <<"team">> \o CoordsOf(present)
        \o <<"shotRush", "location", "homeSkatersOnIce", "awaySkatersOnIce",
             "xGoal", "game_id", "time">>

RawRowOf(present, team, g, t) ==
    LET cs == CoordsOf(present)
    IN  <<team>> \o Tuple([j \in 1..Len(cs) |-> CoordCell(cs[j])])
            \o <<Num(1), Text(<<"N", "e", "u", "Z">>), Num(5), Num(4), Num(1), g, t>>

InitFrame ==
    /\ pc = "input"
    /\ \E present \in SUBSET CoordLabels :
       \E keys \in Tables({"HOME", "AWAY"} \X GameIds \X Times, MaxFrameRows) :
          raw = Frame(RangeIndex(Len(keys)), RawColumns(present),
                      Tuple([i \in 1..Len(keys) |->
                               RawRowOf(present, keys[i][1], keys[i][2], keys[i][3])]))
    /\ window = DEFAULT_WINDOW
    /\ shuffled = Nothing
    /\ out = Nothing
    /\ out2 = Nothing
    /\ ModelIdle

BuildFeatureFrame ==
    /\ pc = "input"
    /\ out' = build_feature_frame(raw)
    /\ pc' = "done"
    /\ UNCHANGED <<raw, window, shuffled, out2, modelVars>>

NextFrame == BuildFeatureFrame
SpecFrame == InitFrame /\ [][NextFrame]_vars

\* C3: the table build_feature_frame returns lists its rows in the order of
\* the input table.
C3_RowOrderPreserved ==
    (pc = "done" /\ IsFrame(out)) => out.index = raw.index

FullPair(df, cx, cy) == HasCol(df, cx) /\ HasCol(df, cy)

CoordsUnresolved(df) ==
    /\ ~HasCol(df, "x")
    /\ ~FullPair(df, "arenaAdjustedXCord", "arenaAdjustedYCord")
    /\ ~FullPair(df, "xCordAdjusted", "yCordAdjusted")

\* C5: with no x column and neither coordinate pair fully present the build
\* aborts with an error, and a table that is returned always has x and y.
C5_AbortsWithoutCoordinatePair ==
    pc = "done" =>
        /\ CoordsUnresolved(raw) => IsErr(out)
        /\ IsFrame(out) => (HasCol(out, "x") /\ HasCol(out, "y"))

-----------------------------------------------------------------------------
(* Zone and entry type on one table.                                       *)
AddZoneAndEntryType ==
    /\ pc = "input"
    /\ out' = add_zone_and_entry_type(raw)
    /\ pc' = "done"
    /\ UNCHANGED <<raw, window, shuffled, out2, modelVars>>

InitZone == FeatureInit(ZoneColumns, ZoneRows, MaxZoneRows, {DEFAULT_WINDOW})
NextZone == AddZoneAndEntryType
SpecZone == InitZone /\ [][NextZone]_vars

BeginsWithNeu(loc) ==
    /\ loc.k = "str"
    /\ Len(loc.s) >= 3
    /\ loc.s[1] = "N" /\ loc.s[2] = "e" /\ loc.s[3] = "u"

\* C6: entry_type is NEUTRAL when location begins with "Neu" (also when
\* shotRush is 1), otherwise CONTROLLED when shotRush equals 1, otherwise
\* OTHER; it is always one of the three.
C6_EntryTypePriority ==
    (pc = "done" /\ IsFrame(out)) =>
        /\ out.index = raw.index
        /\ \A i \in 1..NRows(raw) :
              LET entry == Col(out, "entry_type")[i]
                  rush == Col(raw, "shotRush")[i]
                  loc == Col(raw, "location")[i]
              IN  /\ entry \in {"CONTROLLED", "NEUTRAL", "OTHER"}
                  /\ BeginsWithNeu(loc) => entry = "NEUTRAL"
                  /\ (~BeginsWithNeu(loc) /\ rush = Num(1)) => entry = "CONTROLLED"
                  /\ (~BeginsWithNeu(loc) /\ rush # Num(1)) => entry = "OTHER"

\* a row on which both rules apply, and one on which only the rush rule does
C6_Witness ==
    /\ pc = "done"
    /\ IsFrame(out)
    /\ \E i \in 1..NRows(raw) :
          /\ BeginsWithNeu(Col(raw, "location")[i])
          /\ Col(raw, "shotRush")[i] = Num(1)
          /\ Col(out, "entry_type")[i] = "NEUTRAL"

\* C7: offensive_zone is ATTACK exactly when (isHomeTeam = 1 and x > 0) or
\* (isHomeTeam = 0 and x < 0) and DEFEND otherwise, x = 0 included, where
\* isHomeTeam is 1 exactly when team is "HOME"; it is never anything else.
C7_OffensiveZoneRule ==
    (pc = "done" /\ IsFrame(out)) =>
        /\ out.index = raw.index
        /\ \A i \in 1..NRows(raw) :
              LET zone == Col(out, "offensive_zone")[i]
                  home == Col(out, "isHomeTeam")[i]
                  team == Col(raw, "team")[i]
                  x == Col(raw, "arenaAdjustedXCord")[i]
                  positive == x.k = "num" /\ x.v >= 1
                  negative == x.k = "num" /\ x.v <= -1
              IN  /\ home \in {0, 1}
                  /\ home = 1 <=> team = "HOME"
                  /\ zone \in {"ATTACK", "DEFEND"}
                  /\ zone = "ATTACK" <=>
                        ((home = 1 /\ positive) \/ (home = 0 /\ negative))

\* a shot from x < 0 by a team whose name is not exactly "HOME"
C7_Witness ==
    /\ pc = "done"
    /\ IsFrame(out)
    /\ \E i \in 1..NRows(raw) :
          /\ Col(raw, "team")[i] = "home"
          /\ Col(raw, "arenaAdjustedXCord")[i] = Num(-1)
          /\ Col(out, "offensive_zone")[i] = "ATTACK"

-----------------------------------------------------------------------------
(* The manpower situation on one table.                                    *)
AddManpowerSituation ==
    /\ pc = "input"
    /\ out' = add_manpower_situation(raw)
    /\ pc' = "done"
    /\ UNCHANGED <<raw, window, shuffled, out2, modelVars>>

InitManpower == FeatureInit(ManColumns, ManRows, MaxManRows, {DEFAULT_WINDOW})
NextManpower == AddManpowerSituation
SpecManpower == InitManpower /\ [][NextManpower]_vars

\* C4: add_manpower_situation never raises and labels every row: difference
\* 0 gives EV, +1 PP, -1 SH, and any other difference, a missing count or an
\* unparseable count gives OTHER.
C4_ManpowerNeverRaises ==
    pc = "done" =>
        /\ IsFrame(out)
        /\ \A i \in 1..NRows(raw) :
              LET r == raw.rows[i]
                  shooters == IF r[1] = 1 THEN r[2] ELSE r[3]
                  defenders == IF r[1] = 1 THEN r[3] ELSE r[2]
                  known == shooters.k = "num" /\ defenders.k = "num"
                  d == shooters.v - defenders.v
                  label == Col(out, "manpower_situation")[i]
              IN  /\ label \in {"EV", "PP", "SH", "OTHER"}
                  /\ (known /\ d = 0) => label = "EV"
                  /\ (known /\ d = 1) => label = "PP"
                  /\ (known /\ d = -1) => label = "SH"
                  /\ (~known \/ d \notin {-1, 0, 1}) => label = "OTHER"

-----------------------------------------------------------------------------
(* models.py: candidates, scoring, selection and the hold-out refit.       *)
CV_FOLDS == 5
TEST_PERCENT == 20
MaxSamples == 6

\* get_models(): the candidate names in insertion order
get_models == <<"HGBR", "GBR", "RF", "ET", "ElasticNet">>
CandidateNames == {get_models[j] : j \in 1..Len(get_models)}

\* What cross_val_score can do for one candidate: return fold scores, of which
\* only the mean and the standard deviation are kept (both NaN when a fold's
\* fit or score failed and was recorded as error_score = NaN), or raise.
CvRaise == [err |-> "ValueError", what |-> "cross_val_score"]
CvOutcomes ==
    {[mean |-> Num(0), std |-> Num(0)], [mean |-> Num(1), std |-> Num(0)],
     [mean |-> Num(1), std |-> Num(1)], [mean |-> NaN, std |-> NaN], CvRaise}

\* KFold(CV_FOLDS) without shuffling: contiguous test folds, the first
\* n % CV_FOLDS of them one row longer
FoldSize(n, k) == (n \div CV_FOLDS) + (IF k <= n % CV_FOLDS THEN 1 ELSE 0)
FoldStart(n, k) == 1 + SumSeq([j \in 1..(k - 1) |-> FoldSize(n, j)])
TestFold(n, k) == FoldStart(n, k)..(FoldStart(n, k) + FoldSize(n, k) - 1)
TrainFold(n, k) == (1..n) \ TestFold(n, k)
\* the rows of X that cross_val_score fits or scores a candidate on
CvRows(n) == UNION {TrainFold(n, k) \cup TestFold(n, k) : k \in 1..CV_FOLDS}

\* the loop of score_models from candidate k on; an exception raised by
\* cross_val_score is not caught and ends the loop and the call
RECURSIVE ScoreLoop(_, _, _, _)
ScoreLoop(models, outcome, k, results) ==
    IF k > Len(models)
    THEN [raised |-> FALSE, results |-> results, evaluated |-> k - 1]
    ELSE IF IsErr(outcome[models[k]])
         THEN [raised |-> TRUE, results |-> <<>>, evaluated |-> k]
         ELSE ScoreLoop(models, outcome, k + 1,
                        Append(results, [name |-> models[k],
                                         mean |-> outcome[models[k]].mean,
                                         std |-> outcome[models[k]].std]))

score_models(models, outcome) == ScoreLoop(models, outcome, 1, <<>>)

\* a > b on floats: false whenever either side is NaN
FloatGt(a, b) == IsNum(a) /\ IsNum(b) /\ a.v > b.v

\* max(scores, key=lambda k: scores[k][0]): the first entry is kept until a
\* later one compares greater
RECURSIVE MaxFrom(_, _, _)
MaxFrom(entries, i, best) ==
    IF i > Len(entries) THEN best
    ELSE IF FloatGt(entries[i].mean, entries[best].mean)
         THEN MaxFrom(entries, i + 1, i)
         ELSE MaxFrom(entries, i + 1, best)

PickBestName(entries) == entries[MaxFrom(entries, 2, 1)].name

\* train_test_split: the size of the test part, ceil(test_size * n)
TestSize(n) == (TEST_PERCENT * n + 99) \div 100

InitModels ==
    /\ pc = "start"
    /\ n_samples \in CV_FOLDS..MaxSamples
    /\ cv = <<>>
    /\ scores = <<>>
    /\ evaluated = {}
    /\ cv_rows = {}
    /\ best_name = ""
    /\ train = {}
    /\ holdout = {}
    /\ fit_rows = {}
    /\ raw = Nothing
    /\ window = DEFAULT_WINDOW
    /\ shuffled = Nothing
    /\ out = Nothing
    /\ out2 = Nothing

\* scores = score_models(X, y, candidates), on all the rows of X
ScoreModels ==
    /\ pc = "start"
    /\ \E outcome \in [CandidateNames -> CvOutcomes] :
          LET r == score_models(get_models, outcome)
              ran == {get_models[j] : j \in 1..r.evaluated}
          IN  /\ cv' = [c \in ran |-> outcome[c]]
              /\ scores' = r.results
              /\ evaluated' = ran
              /\ pc' = IF r.raised THEN "aborted" ELSE "scored"
    /\ cv_rows' = CvRows(n_samples)
    /\ UNCHANGED <<n_samples, best_name, train, holdout, fit_rows, featureVars>>

PickBest ==
    /\ pc = "scored"
    /\ best_name' = PickBestName(scores)
    /\ pc' = "picked"
    /\ UNCHANGED <<n_samples, cv, scores, evaluated, cv_rows, train, holdout,
                   fit_rows, featureVars>>

\* the seeded shuffle of train_test_split picks some test part of the right size
Split ==
    /\ pc = "picked"
    /\ \E test \in SUBSET (1..n_samples) :
          /\ Cardinality(test) = TestSize(n_samples)
          /\ holdout' = test
          /\ train' = (1..n_samples) \ test
    /\ pc' = "split"
    /\ UNCHANGED <<n_samples, cv, scores, evaluated, cv_rows, best_name,
                   fit_rows, featureVars>>

Fit ==
    /\ pc = "split"
    /\ fit_rows' = train
    /\ pc' = "fitted"
    /\ UNCHANGED <<n_samples, cv, scores, evaluated, cv_rows, best_name,
                   train, holdout, featureVars>>

ScoreHoldout ==
    /\ pc = "fitted"
    /\ pc' = "done"
    /\ UNCHANGED <<modelVars, featureVars>>

NextModels == ScoreModels \/ PickBest \/ Split \/ Fit \/ ScoreHoldout
SpecModels == InitModels /\ [][NextModels]_vars

Picked == pc \in {"picked", "split", "fitted", "done"}

Entry(name) == scores[CHOOSE j \in 1..Len(scores) : scores[j].name = name]
Position(name) == CHOOSE j \in 1..Len(get_models) : get_models[j] = name

\* a mean that is higher than another: a number above the other number, or a
\* number where the other is no number at all
Higher(a, b) == a.k = "num" /\ (b.k # "num" \/ a.v > b.v)

\* C8: the selected candidate has the highest mean score of all candidates,
\* and of several with that mean the first in insertion order; exactly one
\* candidate is selected.
C8_SelectsHighestMean ==
    Picked =>
        /\ best_name \in CandidateNames
        /\ \A c \in CandidateNames :
              /\ ~Higher(Entry(c).mean, Entry(best_name).mean)
              /\ Entry(c).mean = Entry(best_name).mean =>
                    Position(best_name) <= Position(c)

\* cross-validation of candidate c was run and failed
CvFailed(c) == c \in evaluated /\ (IsErr(cv[c]) \/ cv[c].mean.k # "num")

HasEntry(c) == \E j \in 1..Len(scores) : scores[j].name = c

\* C9: when cross-validation of one candidate fails, every other candidate is
\* still evaluated and gets its (mean, std) entry, and the failed candidate
\* has no numeric score.
C9_CandidateFailureIsolated ==
    pc # "start" =>
        \A c \in CandidateNames :
            CvFailed(c) =>
                /\ \A d \in CandidateNames \ {c} : d \in evaluated /\ HasEntry(d)
                /\ HasEntry(c) => Entry(c).mean.k # "num"

\* C10: no hold-out row was used in the cross-validation that scored the
\* candidates or in fitting the selected pipeline.
C10_HoldoutWithheld ==
    pc = "done" =>
        /\ holdout \cap cv_rows = {}
        /\ holdout \cap fit_rows = {}

====
